---------------------------- MODULE Spec2Model ----------------------------
(***************************************************************************)
(* A model of the RTTTL player of src/src/RTTTL.cpp: the header parser     *)
(* (loadSong), the note tokenizer (nextNote), the playback scheduler       *)
(* (play, continuePlaying, stop) and the worker task that drives it        *)
(* (rtttlTask).                                                            *)
(*                                                                         *)
(* The song text is a sequence of one-character strings that ends with     *)
(* the terminator NUL; `buffer' and `songStart' are 1-based positions in   *)
(* it and 0 is the null pointer.  A read past the terminator is a read of  *)
(* memory the song does not own: it yields the byte `pad', which loadSong  *)
(* draws from PadChars.  Time is the millisecond counter `now' (millis()). *)
(* The volume argument of loadSong is stored by the code and never read;   *)
(* it is left out.                                                         *)
(***************************************************************************)
EXTENDS Integers, Sequences, FiniteSets, TLC

VARIABLES
  text,        \* the characters `song' points at, terminator included
  pad,         \* the byte found at every position past the terminator
  buffer,      \* RTTTL::buffer, the read cursor
  songStart,   \* RTTTL::songStart
  defaultDur,  \* RTTTL::defaultDur
  defaultOct,  \* RTTTL::defaultOct
  bpm,         \* RTTTL::bpm
  wholenote,   \* RTTTL::wholenote
  noteDelay,   \* RTTTL::noteDelay, the deadline of the current note
  playing,     \* RTTTL::playing
  duty,        \* the LEDC channel's duty: 0 is muted, 512 is sounding
  freq,        \* the index into notes[] the LEDC timer was last set from
  now,         \* millis()
  notified,    \* the worker task has a notification pending
  crashed,     \* the program died of an integer division by zero
  last,        \* the last call of the calling task: name, result, branch
  events,      \* the notes decoded since playback last started
  firstRun,    \* <<the notes of the first complete playback since the load>>
  cut,         \* stop() has cut a playback short since the load
  runs,        \* playbacks completed since the load (saturates at MaxRuns)
  wpc,         \* the worker task's position in rtttlTask
  wloc,        \* the worker task's locals inside nextNote
  cpc          \* the calling task's position inside play()

progVars == <<text, pad, buffer, songStart, defaultDur, defaultOct, bpm,
              wholenote, noteDelay, playing, duty, freq, notified, crashed>>
histVars == <<last, events, firstRun, cut, runs>>
taskVars == <<wpc, wloc, cpc>>
vars == <<progVars, now, histVars, taskVars>>

----------------------------------------------------------------------------
(* Bounds of the model *)

MaxTime == 12          \* the clock stops here
MaxOverrun == 2        \* how far past the terminator the cursor is followed
MaxRuns == 2           \* the completed-playbacks counter saturates here
MaxTimeTask == 6       \* the clock's end when the tasks interleave
MaxTimeE2E == 3200     \* the clock's end in the end-to-end scenario

----------------------------------------------------------------------------
(* Characters *)

NUL == "NUL"
DigitChars == {"0", "1", "2", "3", "4", "5", "6", "7", "8", "9"}

\* The character's code: what `c - '0'' is computed from.
Ord(c) ==
  CASE c = NUL -> 0
    [] c = "#" -> 35
    [] c = "," -> 44
    [] c = "." -> 46
    [] c = "0" -> 48 [] c = "1" -> 49 [] c = "2" -> 50 [] c = "3" -> 51
    [] c = "4" -> 52 [] c = "5" -> 53 [] c = "6" -> 54 [] c = "7" -> 55
    [] c = "8" -> 56 [] c = "9" -> 57
    [] c = ":" -> 58
    [] c = "=" -> 61
    [] c = "a" -> 97 [] c = "b" -> 98 [] c = "c" -> 99 [] c = "d" -> 100
    [] c = "e" -> 101 [] c = "f" -> 102 [] c = "g" -> 103 [] c = "o" -> 111
    [] c = "p" -> 112 [] c = "s" -> 115 [] c = "t" -> 116 [] c = "x" -> 120

isdigit(c) == c \in DigitChars

\* c - '0'
MinusZero(c) == Ord(c) - 48

\* *p for a pointer p into the song: the text up to its terminator, then
\* whatever memory follows.
At(t, pd, i) == IF i \in 1..Len(t) THEN t[i] ELSE pd

\* while (isdigit(*buffer)) num = (num * 10) + (*buffer++ - '0');
RECURSIVE ScanDigits(_, _, _, _)
ScanDigits(t, pd, i, num) ==
  IF isdigit(At(t, pd, i))
  THEN ScanDigits(t, pd, i + 1, (num * 10) + MinusZero(At(t, pd, i)))
  ELSE [pos |-> i, num |-> num]

\* while (*buffer != ':') buffer++;
RECURSIVE SkipName(_, _, _)
SkipName(t, pd, i) ==
  IF At(t, pd, i) # ":" THEN SkipName(t, pd, i + 1) ELSE i

----------------------------------------------------------------------------
(* The header parser: RTTTL::loadSong *)

\* The constant of RTTTL.h added to every octave: octave 4 is row 0 of notes[].
OCTAVE_OFFSET == 0

\* if (*buffer == 'd') { skip "d="; digits; if (num > 0) defaultDur = num; skip comma }
DurField(t, pd, i) ==
  IF At(t, pd, i) = "d"
  THEN LET s == ScanDigits(t, pd, i + 2, 0)
       IN  [dur |-> IF s.num > 0 THEN s.num ELSE 4, pos |-> s.pos + 1]
  ELSE [dur |-> 4, pos |-> i]

\* The octave range with its lower end left out
OctaveOrDefaultAbove3(num) == IF num > 3 /\ num <= 7 THEN num ELSE 6

\* if (num >= 3 && num <= 7) defaultOct = num;
OctaveOrDefault(num) == IF num >= 3 /\ num <= 7 THEN num ELSE 6

\* if (*buffer == 'o') { skip "o="; num = *buffer++ - '0'; ...; skip comma }
OctField(t, pd, i) ==
  IF At(t, pd, i) = "o"
  THEN [oct |-> OctaveOrDefault(MinusZero(At(t, pd, i + 2))), pos |-> i + 4]
  ELSE [oct |-> 6, pos |-> i]

\* if (*buffer == 'b') { skip "b="; digits; bpm = num; skip colon }
BpmField(t, pd, i) ==
  IF At(t, pd, i) = "b"
  THEN LET s == ScanDigits(t, pd, i + 2, 0)
       IN  [bpm |-> s.num, pos |-> s.pos + 1]
  ELSE [bpm |-> 63, pos |-> i]

\* The scan of loadSong from `song' to the position it leaves buffer at.
Header(t, pd) ==
  LET i0 == SkipName(t, pd, 1) + 1
      d  == DurField(t, pd, i0)
      o  == OctField(t, pd, d.pos)
      b  == BpmField(t, pd, o.pos)
  IN  [dur |-> d.dur, oct |-> o.oct, bpm |-> b.bpm, pos |-> b.pos]

\* wholenote = (60 * 1000L / bpm) * 2, for bpm # 0
WholeNote(b) == (60000 \div b) * 2

----------------------------------------------------------------------------
(* The note tokenizer: RTTTL::nextNote *)

\* switch (*buffer) { case 'c': note = 1; ... case 'p': default: note = 0; }
NoteOf(c) ==
  CASE c = "c" -> 1
    [] c = "d" -> 3
    [] c = "e" -> 5
    [] c = "f" -> 6
    [] c = "g" -> 8
    [] c = "a" -> 10
    [] c = "b" -> 12
    [] OTHER -> 0

\* The duration digits read and then ignored
BaseDurationDefaultOnly(wn, num, dd) == wn \div dd

\* if (num) duration = wholenote / num; else duration = wholenote / defaultDur;
BaseDuration(wn, num, dd) == IF num # 0 THEN wn \div num ELSE wn \div dd

\* duration += duration / 2;
Dotted(d) == d + (d \div 2)

\* One token decoded at position i: the note (0 is a rest), the scale, the
\* duration in ms and the position the cursor is left at.
ParseNote(t, pd, i, wn, dd, dOct) ==
  LET s     == ScanDigits(t, pd, i, 0)
      dur0  == BaseDuration(wn, s.num, dd)
      note0 == NoteOf(At(t, pd, s.pos))
      p1    == s.pos + 1
      sharp == At(t, pd, p1) = "#"
      p2    == IF sharp THEN p1 + 1 ELSE p1
      dot   == At(t, pd, p2) = "."
      p3    == IF dot THEN p2 + 1 ELSE p2
      digit == isdigit(At(t, pd, p3))
      p4    == IF digit THEN p3 + 1 ELSE p3
      sc    == IF digit THEN MinusZero(At(t, pd, p3)) ELSE dOct
      p5    == IF At(t, pd, p4) = "," THEN p4 + 1 ELSE p4
  IN  [note     |-> IF sharp THEN note0 + 1 ELSE note0,
       scale    |-> sc + OCTAVE_OFFSET,
       duration |-> IF dot THEN Dotted(dur0) ELSE dur0,
       pos      |-> p5]

\* notes[(scale - 4) * 12 + note]: the index the frequency is read at
NoteIndex(scale, note) == (scale - 4) * 12 + note

\* vTaskDelay(pdMS_TO_TICKS(duration)) at the end of RTTTL::tone: the calling
\* task sleeps for the note's duration (a 1 ms tick).
ToneDelay(duration) == duration

\* noteDelay = millis() + (duration+1) after a tone, millis() + duration
\* after a rest; m is millis() at that statement.
Deadline(m, note, duration) ==
  IF note # 0 THEN m + (duration + 1) ELSE m + duration

\* What the decoded note is recorded as: pitch, octave, duration.
Event(n) == [note |-> n.note, scale |-> n.scale, duration |-> n.duration]

----------------------------------------------------------------------------
(* Song texts *)

\* "a:d=2,o=5,b=60000:c,4p,2e.6": whole note 2 ms
SongA == <<"a", ":", "d", "=", "2", ",", "o", "=", "5", ",",
           "b", "=", "6", "0", "0", "0", "0", ":",
           "c", ",", "4", "p", ",", "2", "e", ".", "6", NUL>>

\* "t:b=60000:p,8": the text ends right after a note's duration digits
SongT == <<"t", ":", "b", "=", "6", "0", "0", "0", "0", ":",
           "p", ",", "8", NUL>>

\* "test:d=4,o=5,b=100:c,8d#,2.e,p,g6"
SongE2E == <<"t", "e", "s", "t", ":", "d", "=", "4", ",", "o", "=", "5", ",",
             "b", "=", "1", "0", "0", ":",
             "c", ",", "8", "d", "#", ",", "2", ".", "e", ",", "p", ",",
             "g", "6", NUL>>

\* The bytes that may follow a song's terminator in memory.
PadChars == {NUL, "c"}

\* What loadSong is given: a text and the memory after it.  SongA is never
\* read past its terminator, so one pad stands for all.
Loads == {<<SongA, NUL>>} \cup {<<SongT, p>> : p \in PadChars}

----------------------------------------------------------------------------
(* The state after construction *)

\* The members as RTTTL.h initialises them: no song, stopped.
MemberDefaults ==
  /\ buffer = 0
  /\ songStart = 0
  /\ defaultDur = 4
  /\ defaultOct = 6
  /\ bpm = 63
  /\ wholenote = 0
  /\ noteDelay = 0
  /\ playing = FALSE

\* RTTTL::RTTTL: the channel is configured with duty 0 and the worker task
\* is created; it blocks in xTaskNotifyWait.
Construct ==
  /\ duty = 0
  /\ freq = 0
  /\ notified = FALSE
  /\ wpc = "wait"
  /\ wloc = [note |-> 0, scale |-> 0, duration |-> 0, wake |-> 0]
  /\ cpc = "idle"

NoHistory ==
  /\ last = [op |-> "new", ret |-> "void", branch |-> "none", slept |-> 0]
  /\ events = <<>>
  /\ firstRun = <<>>
  /\ cut = FALSE
  /\ runs = 0

Init ==
  /\ text = <<NUL>>
  /\ pad = NUL
  /\ MemberDefaults
  /\ Construct
  /\ now = 0
  /\ crashed = FALSE
  /\ NoHistory

----------------------------------------------------------------------------
(* The public operations, each call taken as one step *)

Called(op, ret, branch, slept) ==
  last' = [op |-> op, ret |-> ret, branch |-> branch, slept |-> slept]

\* RTTTL::loadSong(song, volume), song's bytes being `song' followed by p's.
\* A bpm of 0 makes the division of line 104 trap: the call never returns.
LoadSong(song, p) ==
  /\ ~crashed
  /\ LET h == Header(song, p)
     IN  /\ text' = song
         /\ pad' = p
         /\ defaultDur' = h.dur
         /\ defaultOct' = h.oct
         /\ bpm' = h.bpm
         /\ noteDelay' = 0
         /\ duty' = 0
         /\ buffer' = h.pos
         /\ IF h.bpm = 0
            THEN /\ crashed' = TRUE
                 /\ UNCHANGED <<wholenote, songStart>>
                 /\ Called("loadSong", "none", "trap", 0)
            ELSE /\ wholenote' = WholeNote(h.bpm)
                 /\ songStart' = h.pos
                 /\ UNCHANGED crashed
                 /\ Called("loadSong", "void", "loaded", 0)
  /\ events' = <<>>
  /\ firstRun' = <<>>
  /\ cut' = FALSE
  /\ runs' = 0
  /\ UNCHANGED <<playing, freq, notified, now, taskVars>>

\* play() that does not look at songStart
PlayUnchecked ==
  /\ ~crashed
  /\ notified' = TRUE
  /\ playing' = TRUE
  /\ Called("play", TRUE, IF playing THEN "again" ELSE "start", 0)
  /\ events' = IF playing THEN events ELSE <<>>
  /\ UNCHANGED <<text, pad, buffer, songStart, defaultDur, defaultOct, bpm,
                 wholenote, noteDelay, duty, freq, crashed, firstRun, cut,
                 runs, now, taskVars>>

\* RTTTL::play
Play ==
  /\ ~crashed
  /\ IF songStart # 0
     THEN /\ notified' = TRUE
          /\ playing' = TRUE
          /\ Called("play", TRUE, IF playing THEN "again" ELSE "start", 0)
          /\ events' = IF playing THEN events ELSE <<>>
     ELSE /\ Called("play", FALSE, "nosong", 0)
          /\ UNCHANGED <<notified, playing, events>>
  /\ UNCHANGED <<text, pad, buffer, songStart, defaultDur, defaultOct, bpm,
                 wholenote, noteDelay, duty, freq, crashed, firstRun, cut,
                 runs, now, taskVars>>

\* stop() that rewinds only once the text has been played to its end
StopCallMidSong ==
  IF playing
  THEN /\ playing' = FALSE
       /\ duty' = 0
       /\ buffer' = IF At(text, pad, buffer) = NUL THEN songStart ELSE buffer
  ELSE UNCHANGED <<playing, duty, buffer>>

\* stop() that leaves the channel as it is
StopCallNoMute ==
  IF playing
  THEN /\ playing' = FALSE
       /\ buffer' = songStart
       /\ UNCHANGED duty
  ELSE UNCHANGED <<playing, duty, buffer>>

\* stop() that rewinds and mutes and leaves the flag set
StopCallStillPlaying ==
  IF playing
  THEN /\ duty' = 0
       /\ buffer' = songStart
       /\ UNCHANGED playing
  ELSE UNCHANGED <<playing, duty, buffer>>

\* stop() that mutes and clears the flag and leaves the cursor where it is
StopCallNoRewind ==
  IF playing
  THEN /\ playing' = FALSE
       /\ duty' = 0
       /\ UNCHANGED buffer
  ELSE UNCHANGED <<playing, duty, buffer>>

\* The body of RTTTL::stop
StopCall ==
  IF playing
  THEN /\ playing' = FALSE
       /\ duty' = 0
       /\ buffer' = songStart
  ELSE UNCHANGED <<playing, duty, buffer>>

\* RTTTL::stop
Stop ==
  /\ ~crashed
  /\ StopCall
  /\ Called("stop", "void", IF playing THEN "stopped" ELSE "idle", 0)
  /\ cut' = (cut \/ playing)
  /\ UNCHANGED <<text, pad, songStart, defaultDur, defaultOct, bpm, wholenote,
                 noteDelay, freq, notified, crashed, events, firstRun, runs,
                 now, taskVars>>

\* RTTTL::nextNote, called at time `now': mute, decode one token, start the
\* tone and sleep in it unless the note is a rest, set the deadline.
NextNote ==
  LET n     == ParseNote(text, pad, buffer, wholenote, defaultDur, defaultOct)
      slept == IF n.note # 0 THEN ToneDelay(n.duration) ELSE 0
  IN  /\ buffer' = n.pos
      /\ duty' = IF n.note # 0 THEN 512 ELSE 0
      /\ freq' = IF n.note # 0 THEN NoteIndex(n.scale, n.note) ELSE freq
      /\ now' = now + slept
      /\ noteDelay' = Deadline(now', n.note, n.duration)
      /\ events' = Append(events, Event(n))
      /\ Called("step", TRUE, "note", slept)
      /\ UNCHANGED <<playing, firstRun, runs>>

\* continuePlaying that decodes a millisecond before the deadline
NoteRunningButLast(m, deadline) == m + 1 < deadline

\* continuePlaying: if (m < noteDelay) return true;
NoteRunning(m, deadline) == m < deadline

\* RTTTL::continuePlaying
Step ==
  /\ ~crashed
  /\ buffer <= Len(text) + MaxOverrun
  /\ IF ~playing
     THEN /\ Called("step", FALSE, "idle", 0)
          /\ UNCHANGED <<buffer, duty, freq, now, noteDelay, playing, events,
                         firstRun, runs>>
     ELSE IF NoteRunning(now, noteDelay)
     THEN /\ Called("step", TRUE, "wait", 0)
          /\ UNCHANGED <<buffer, duty, freq, now, noteDelay, playing, events,
                         firstRun, runs>>
     ELSE IF At(text, pad, buffer) = NUL
     THEN /\ StopCall
          /\ Called("step", FALSE, "end", 0)
          /\ firstRun' = IF runs = 0 THEN <<events>> ELSE firstRun
          /\ runs' = IF runs = MaxRuns THEN runs ELSE runs + 1
          /\ UNCHANGED <<freq, now, noteDelay, events>>
     ELSE NextNote
  /\ UNCHANGED <<text, pad, songStart, defaultDur, defaultOct, bpm, wholenote,
                 notified, crashed, cut, taskVars>>

\* d milliseconds pass with no call made.
TimePasses(d) ==
  /\ now' = now + d
  /\ UNCHANGED <<progVars, histVars, taskVars>>

\* A millisecond passes.
Tick ==
  /\ now < MaxTime
  /\ TimePasses(1)

Next ==
  \/ \E ld \in Loads : LoadSong(ld[1], ld[2])
  \/ Play
  \/ Step /\ now' <= MaxTime
  \/ Stop
  \/ Tick

Spec == Init /\ [][Next]_vars

----------------------------------------------------------------------------
(* Claims about the scheduler, calls taken one at a time (Spec) *)

C3_StepNeverSleeps ==
  last.op = "step" => last.slept = 0

\* C5: loadSong resets playback.  When loadSong has returned, the scheduler
\* is stopped, the cursor is at the new songStart and the channel is muted.
C5_LoadSongStops ==
  (last.op = "loadSong" /\ last.branch = "loaded")
    => (~playing /\ buffer = songStart /\ duty = 0)

\* C6: The result of step().  Every call of continuePlaying returns true
\* exactly when the scheduler is playing after the call, having waited
\* (nothing changed) or decoded one note; it returns false only when the
\* song ended in this call or the scheduler was stopped already, and in the
\* latter case the call changes nothing: no member, not the channel, not
\* the clock.
C6_StepResult ==
  [][Step =>
       /\ last'.ret = playing'
       /\ last'.ret = TRUE =>
            /\ playing
            /\ \/ now < noteDelay /\ UNCHANGED <<progVars, now, events>>
               \/ /\ now >= noteDelay
                  /\ At(text, pad, buffer) # NUL
                  /\ Len(events') = Len(events) + 1
                  /\ buffer' > buffer
       /\ last'.ret = FALSE =>
            \/ ~playing
            \/ playing /\ now >= noteDelay /\ At(text, pad, buffer) = NUL
       /\ ~playing => (last'.ret = FALSE /\ UNCHANGED <<progVars, now>>)
    ]_vars

\* A step has just ended the song and returned false.
C6_StepEndedSong ==
  /\ last.op = "step"
  /\ last.ret = FALSE
  /\ last.branch = "end"
  /\ ~playing
  /\ Len(events) >= 2

\* C7: play() without a song returns false and changes nothing (flag,
\* cursor, deadline, channel, notification); with a song it returns true,
\* notifies the worker and sets the flag, and decodes no note: cursor,
\* deadline, channel and the notes emitted stay as they were.
C7_Play ==
  [][Play =>
       /\ songStart = 0 => (last'.ret = FALSE /\ UNCHANGED <<progVars, now>>)
       /\ songStart # 0 =>
            /\ last'.ret = TRUE
            /\ playing'
            /\ notified'
            /\ UNCHANGED <<buffer, noteDelay, duty, freq, now>>
            /\ playing => UNCHANGED events
            /\ events' \in {events, <<>>}
    ]_vars

\* play() has just been refused: there is no song.
C7_PlayRefused ==
  /\ last.op = "play"
  /\ last.ret = FALSE
  /\ songStart = 0
  /\ ~playing
  /\ ~notified

C17_CursorBounds ==
  (songStart # 0 /\ ~crashed) =>
    (songStart <= buffer /\ buffer <= Len(text) /\ songStart <= Len(text))

----------------------------------------------------------------------------
(* The end-to-end scenario: one song, time passing a note at a time *)

\* Time passes until the current note's deadline.
WaitNote ==
  /\ now < noteDelay
  /\ noteDelay <= MaxTimeE2E
  /\ TimePasses(noteDelay - now)

NextE2E ==
  \/ LoadSong(SongE2E, NUL)
  \/ Play
  \/ Step /\ now' <= MaxTimeE2E
  \/ Stop
  \/ WaitNote

SpecE2E == Init /\ [][NextE2E]_vars

\* e is the note x, a rest having no octave
SameNote(e, x) ==
  /\ e.note = x.note
  /\ e.duration = x.duration
  /\ x.note # 0 => e.scale = x.scale

SameNotes(es, xs) ==
  /\ Len(es) = Len(xs)
  /\ \A k \in 1..Len(xs) : SameNote(es[k], xs[k])

PlaybackEnded == last.op = "step" /\ last.branch = "end"

\* C, D#, E, rest, G
FiveNotes ==
  << [note |-> 1, scale |-> 5, duration |-> 300],
     [note |-> 4, scale |-> 5, duration |-> 150],
     [note |-> 5, scale |-> 5, duration |-> 450],
     [note |-> 0, scale |-> 5, duration |-> 300],
     [note |-> 8, scale |-> 6, duration |-> 300] >>

\* C, D#, rest, E, rest, G: "2." is a token of its own, '.' being no note
\* letter, and "e" the next token
SixNotes ==
  << [note |-> 1, scale |-> 5, duration |-> 300],
     [note |-> 4, scale |-> 5, duration |-> 150],
     [note |-> 0, scale |-> 5, duration |-> 600],
     [note |-> 5, scale |-> 5, duration |-> 300],
     [note |-> 0, scale |-> 5, duration |-> 300],
     [note |-> 8, scale |-> 6, duration |-> 300] >>

\* C2 as stated: End-to-end decoding.  A playback of
\* "test:d=4,o=5,b=100:c,8d#,2.e,p,g6" that has run to its end emitted the
\* five notes (C,5,300), (D#,5,150), (E,5,450), (rest,300), (G,6,300), with
\* a whole note of 1200 ms, and the scheduler is stopped.
C2_FiveNotesAsStated ==
  PlaybackEnded =>
    (SameNotes(events, FiveNotes) /\ wholenote = 1200 /\ ~playing)

\* C2 amended: a playback of that text that has run to its end emitted six
\* notes, (C,5,300), (D#,5,150), (rest,600), (E,5,300), (rest,300),
\* (G,6,300), with a whole note of 1200 ms, and the scheduler is stopped;
\* before the end the notes emitted are a prefix of those six.
C2_EndToEnd ==
  /\ PlaybackEnded =>
       (SameNotes(events, SixNotes) /\ wholenote = 1200 /\ ~playing)
  /\ (songStart # 0 /\ Len(events) <= Len(SixNotes)) =>
       SameNotes(events, SubSeq(SixNotes, 1, Len(events)))
  /\ Len(events) <= Len(SixNotes)

\* The scenario's playback has just run to its end.
C2_Played ==
  /\ PlaybackEnded
  /\ text = SongE2E
  /\ Len(events) = 6
  /\ ~playing

\* C13: End-of-song transition.  A step taken while playing, with the
\* deadline reached and the cursor at the end of the text, decodes no note,
\* mutes the driver, clears the playing flag and puts the cursor back on
\* songStart, which it leaves as it is; it returns false.
C13_EndOfSong ==
  [][(Step /\ playing /\ now >= noteDelay /\ At(text, pad, buffer) = NUL)
        => /\ events' = events
           /\ duty' = 0
           /\ ~playing'
           /\ buffer' = songStart
           /\ songStart' = songStart
           /\ last'.ret = FALSE]_vars

\* SongA has been played to its end: three notes, the last still sounding
\* when the step found the end of the text
C13_SongAEnded ==
  /\ PlaybackEnded
  /\ text = SongA
  /\ Len(events) = 3
  /\ events[3].note # 0
  /\ duty = 0
  /\ ~playing
  /\ buffer = songStart

\* C14: Non-blocking wait is a no-op.  A step taken while playing, before
\* the deadline, leaves the cursor, songStart, the deadline, the playing
\* flag and the driver's output as they are, and returns true.
C14_WaitIsNoOp ==
  [][(Step /\ playing /\ now < noteDelay)
        => /\ UNCHANGED <<buffer, songStart, noteDelay, playing, duty, freq>>
           /\ last'.ret = TRUE]_vars

\* A step has returned true a millisecond before the deadline of a sounding
\* note, the song still playing
C14_WaitedOnNote ==
  /\ last.op = "step"
  /\ last.branch = "wait"
  /\ playing
  /\ now + 1 = noteDelay
  /\ duty = 512

\* C16 as stated: Note deadline.  A step that decodes a note of duration D
\* at time now, the time the tone starts or the rest begins, sets the
\* deadline to now + D + 1 for a tone and to now + D for a rest, so that
\* the next note is decoded D + 1 (D) milliseconds after this one started.
C16_NoteDeadline ==
  [][(Step /\ playing /\ now >= noteDelay /\ At(text, pad, buffer) # NUL)
        => LET e == events'[Len(events')]
           IN  noteDelay' = IF e.note # 0 THEN now + e.duration + 1
                                          ELSE now + e.duration]_vars

----------------------------------------------------------------------------
(* The header parser alone: a text is given, loadSong is called on it *)

\* The decimal digits of n, as the song's author writes them
RECURSIVE Dec(_)
Dec(n) ==
  LET digit == CHOOSE c \in DigitChars : MinusZero(c) = n % 10
  IN  IF n < 10 THEN <<digit>> ELSE Dec(n \div 10) \o <<digit>>

\* "n:d=D,o=O,b=B:" and the position right after its last colon
FullHeader(D, O, B) ==
  <<"n", ":", "d", "=">> \o Dec(D) \o <<",", "o", "=">> \o Dec(O)
    \o <<",", "b", "=">> \o Dec(B) \o <<":">>

\* "n:d=D,o=O,b=B:c,e"
FullSong(D, O, B) == FullHeader(D, O, B) \o <<"c", ",", "e", NUL>>

HeaderDurations == {1, 2, 4, 8, 16, 32}
HeaderOctaves == 3..7
HeaderBpms == {1, 63, 100, 900, 60001}

FullSongs ==
  {FullSong(D, O, B) : D \in HeaderDurations, O \in HeaderOctaves,
                       B \in HeaderBpms}

\* The first notes of the headerless songs: one of each letter, with and
\* without duration digits, sharp, dot and octave
FirstNotes ==
  { <<"c">>, <<"d">>, <<"e">>, <<"f">>, <<"g">>, <<"a">>, <<"b">>, <<"p">>,
    <<"8", "c">>, <<"d", "#">>, <<"a", ".">>, <<"b", "5">>, <<"1", "6", "d">> }

\* "x:" first ",8e,c": a name, a colon and a note list
Headerless(first) ==
  <<"x", ":">> \o first \o <<",", "8", "e", ",", "c", NUL>>

HeaderlessSongs == {Headerless(first) : first \in FirstNotes}

InitLoad ==
  /\ text \in FullSongs \cup HeaderlessSongs
  /\ pad \in PadChars
  /\ MemberDefaults
  /\ Construct
  /\ now = 0
  /\ crashed = FALSE
  /\ NoHistory

\* loadSong is called on the text given
LoadGiven ==
  /\ last.op = "new"
  /\ LoadSong(text, pad)

SpecLoad == InitLoad /\ [][LoadGiven]_vars

\* C9: Headerless song.  Once loadSong has read a text "name:notelist"
\* that has no d=, o= or b= field, whatever its first note, the defaults are
\* the built-in ones: duration 4, octave 6, 63 bpm (and the call returned).
C9_HeaderlessDefaults ==
  (last.op = "loadSong" /\ text \in HeaderlessSongs)
    => /\ ~crashed
       /\ defaultDur = 4
       /\ defaultOct = 6
       /\ bpm = 63

\* C10: Full header parse.  Once loadSong has read "n:d=D,o=O,b=B:..."
\* with D in {1,2,4,8,16,32}, O in 3..7 and B > 0, the defaults are D, O
\* and B, the whole note is (60000 / B) * 2 ms, integer division, and
\* cursor and songStart are at the character right after the header's last
\* colon.
C10_FullHeader ==
  \A D \in HeaderDurations, O \in HeaderOctaves, B \in HeaderBpms :
    (last.op = "loadSong" /\ text = FullSong(D, O, B))
      => /\ ~crashed
         /\ defaultDur = D
         /\ defaultOct = O
         /\ bpm = B
         /\ wholenote = (60000 \div B) * 2
         /\ songStart = Len(FullHeader(D, O, B)) + 1
         /\ buffer = songStart
         /\ text[songStart - 1] = ":"
         /\ text[songStart] = "c"

\* "n:d=32,o=3,b=900:c,e" has been loaded
C10_Loaded ==
  /\ last.op = "loadSong"
  /\ text = FullSong(32, 3, 900)
  /\ defaultDur = 32
  /\ defaultOct = 3
  /\ bpm = 900
  /\ wholenote = 132

\* C12 as stated: Positive BPM at division.  For every text that conforms
\* to the song grammar and whose b= field, when present, is positive (each
\* text given here is one), loadSong divides by a bpm greater than zero:
\* once it was called, bpm > 0 and no division by zero happened.
C12_PositiveBpm ==
  last.op = "loadSong" => (bpm > 0 /\ ~crashed)

----------------------------------------------------------------------------
(* The tokenizer: a text is given, loaded, played once and stepped to its   *)
(* end, time passing a note at a time                                      *)

\* The letters the switch of nextNote gives a semitone
NoteLetters == {"c", "d", "e", "f", "g", "a", "b"}

\* Letters the switch leaves to its 'p' and default cases
RestLetters == {"p", "x"}

\* digits? letter '#'? '.'? digit?
Token(digits, letter, sharp, dot, octave) ==
  digits \o <<letter>> \o (IF sharp THEN <<"#">> ELSE <<>>)
         \o (IF dot THEN <<".">> ELSE <<>>) \o octave

TokenDigits == {<<>>, <<"2">>}
TokenOctaves == {<<>>, <<"3">>, <<"4">>, <<"7">>}

\* "n:b=6000:" and "n:o=3,b=6000:", a whole note of 20 ms
TokenHeaders ==
  { <<"n", ":", "b", "=", "6", "0", "0", "0", ":">>,
    <<"n", ":", "o", "=", "3", ",", "b", "=", "6", "0", "0", "0", ":">> }

\* header, the token, ",8e"
TokenSong(h, tok) == h \o tok \o <<",", "8", "e", NUL>>

TokenSongs ==
  {TokenSong(h, Token(n, l, s, d, o)) :
     h \in TokenHeaders, n \in TokenDigits, l \in NoteLetters \cup RestLetters,
     s \in BOOLEAN, d \in BOOLEAN, o \in TokenOctaves}

InitPlay ==
  /\ text \in TokenSongs \cup HeaderlessSongs
  /\ pad \in PadChars
  /\ MemberDefaults
  /\ Construct
  /\ now = 0
  /\ crashed = FALSE
  /\ NoHistory

\* play is called once loadSong has returned
PlayGiven ==
  /\ last.op = "loadSong"
  /\ last.branch = "loaded"
  /\ Play

\* The slowest of the songs given, "x:b,8e,c" at 8 bpm, ends at 11251 ms
MaxTimePlay == 12000

\* continuePlaying is called while the song plays
StepPlaying ==
  /\ playing
  /\ Step
  /\ now' <= MaxTimePlay

\* Time passes until the current note's deadline.
WaitPlay ==
  /\ now < noteDelay
  /\ noteDelay <= MaxTimePlay
  /\ TimePasses(noteDelay - now)

NextPlay ==
  \/ LoadGiven
  \/ PlayGiven
  \/ StepPlaying
  \/ WaitPlay

SpecPlay == InitPlay /\ [][NextPlay]_vars

\* C11 as stated: Rest law.  A note token whose letter is 'p', or any
\* letter outside c, d, e, f, g, a, b, decodes to a rest whatever '#', '.'
\* or octave digit follows it: the first event of a song whose first token
\* has such a letter is a rest, and right after it is decoded no tone sounds.
C11_RestLaw ==
  \A h \in TokenHeaders, n \in TokenDigits, l \in RestLetters,
     s \in BOOLEAN, d \in BOOLEAN, o \in TokenOctaves :
    (text = TokenSong(h, Token(n, l, s, d, o)) /\ Len(events) >= 1)
      => /\ events[1].note = 0
         /\ Len(events) = 1 => duty = 0

\* C20 as stated: Frequency lookup stays in the table.  For every note
\* that is no rest, decoded with an octave in 3..7, explicit or default,
\* octave 4 being the table's row 0, the index (octave - 4) * 12 + semitone
\* is not negative: no tone is started from before the start of the table.
C20_IndexInTable ==
  /\ \A k \in 1..Len(events) :
        (events[k].note # 0 /\ events[k].scale - OCTAVE_OFFSET \in 3..7)
          => NoteIndex(events[k].scale, events[k].note) >= 0
  /\ duty = 512 => freq >= 0

\* The note list of a text starts right after its last colon
NoteListStart(t) ==
  1 + CHOOSE i \in 1..Len(t) :
        t[i] = ":" /\ \A j \in (i + 1)..Len(t) : t[j] # ":"

\* The tokens of the note list from position i on, commas apart, cur being
\* the token begun
RECURSIVE SplitNotes(_, _, _)
SplitNotes(t, i, cur) ==
  IF t[i] = NUL THEN <<cur>>
  ELSE IF t[i] = "," THEN <<cur>> \o SplitNotes(t, i + 1, <<>>)
  ELSE SplitNotes(t, i + 1, Append(cur, t[i]))

NoteTokens(t) == SplitNotes(t, NoteListStart(t), <<>>)

\* A token decoded on its own, with the defaults loaded
TokenDecoded(tok) ==
  Event(ParseNote(Append(tok, NUL), NUL, 1, wholenote, defaultDur, defaultOct))

\* The note list decoded token by token
TokensDecoded(t) ==
  LET toks == NoteTokens(t)
  IN  [k \in 1..Len(toks) |-> TokenDecoded(toks[k])]

\* C15 as stated: Textual order.  Within one playback of a loaded song
\* that conforms to the grammar, the k-th note emitted is the decoding of
\* the k-th token of the note list, none skipped, split, merged or
\* reordered: the notes emitted are a prefix of the note list decoded token
\* by token, and all of it once the playback has run to its end.  (One note
\* at a time: the single channel holds one frequency.)
C15_TextualOrder ==
  (songStart # 0 /\ ~crashed) =>
    LET xs == TokensDecoded(text)
    IN  /\ Len(events) <= Len(xs)
        /\ SameNotes(events, SubSeq(xs, 1, Len(events)))
        /\ PlaybackEnded => Len(events) = Len(xs)

\* The same, continuePlaying being called again and again while the song
\* plays and time passing
\* The headerless songs and the songs of one token after "n:b=6000:"
FairSongs == HeaderlessSongs \cup {t \in TokenSongs : t[3] = "b"}

InitPlayFair ==
  /\ InitPlay
  /\ text \in FairSongs
  /\ pad = NUL

SpecPlayFair ==
  InitPlayFair /\ [][NextPlay]_vars
    /\ WF_vars(StepPlaying) /\ WF_vars(WaitPlay)

----------------------------------------------------------------------------
(* The worker task and the calling task, interleaved statement by           *)
(* statement.  The worker runs rtttlTask; the calling task calls loadSong,  *)
(* play and stop.  Nothing orders the two tasks' accesses to the members.   *)

memberVars == <<text, pad, buffer, songStart, defaultDur, defaultOct, bpm,
                wholenote, noteDelay, playing, duty, freq, notified, crashed>>

\* xTaskNotifyWait(pdFALSE, ULONG_MAX, nullptr, portMAX_DELAY)
WWait ==
  /\ wpc = "wait"
  /\ notified
  /\ notified' = FALSE
  /\ wpc' = "loop"
  /\ UNCHANGED <<text, pad, buffer, songStart, defaultDur, defaultOct, bpm,
                 wholenote, noteDelay, playing, duty, freq, crashed, now,
                 histVars, wloc, cpc>>

\* while (rtttl->isPlaying())
WLoop ==
  /\ wpc = "loop"
  /\ wpc' = IF playing THEN "cp_playing" ELSE "wait"
  /\ UNCHANGED <<memberVars, now, histVars, wloc, cpc>>

\* continuePlaying: if (!playing) return false;
WCheckPlaying ==
  /\ wpc = "cp_playing"
  /\ wpc' = IF playing THEN "cp_time" ELSE "loop"
  /\ UNCHANGED <<memberVars, now, histVars, wloc, cpc>>

\* continuePlaying: m = millis(); if (m < noteDelay) return true;
WCheckTime ==
  /\ wpc = "cp_time"
  /\ wpc' = IF NoteRunning(now, noteDelay) THEN "loop" ELSE "cp_eot"
  /\ UNCHANGED <<memberVars, now, histVars, wloc, cpc>>

\* continuePlaying: if (*buffer == '\0') { stop(); return false; }
WCheckEnd ==
  /\ wpc = "cp_eot"
  /\ buffer <= Len(text) + MaxOverrun
  /\ IF At(text, pad, buffer) = NUL
     THEN /\ StopCall
          /\ wpc' = "loop"
          /\ firstRun' = IF runs = 0 /\ playing THEN <<events>> ELSE firstRun
          /\ runs' = IF runs = MaxRuns \/ ~playing THEN runs ELSE runs + 1
     ELSE /\ wpc' = "nn_mute"
          /\ UNCHANGED <<playing, duty, buffer, firstRun, runs>>
  /\ UNCHANGED <<text, pad, songStart, defaultDur, defaultOct, bpm, wholenote,
                 noteDelay, freq, notified, crashed, now, last, events, cut,
                 wloc, cpc>>

\* nextNote: noTone();
WMute ==
  /\ wpc = "nn_mute"
  /\ duty' = 0
  /\ wpc' = "nn_scan"
  /\ UNCHANGED <<text, pad, buffer, songStart, defaultDur, defaultOct, bpm,
                 wholenote, noteDelay, playing, freq, notified, crashed, now,
                 histVars, wloc, cpc>>

\* nextNote: the token is read and the cursor moved past it (lines 138-201)
WScan ==
  /\ wpc = "nn_scan"
  /\ LET n == ParseNote(text, pad, buffer, wholenote, defaultDur, defaultOct)
     IN  /\ buffer' = n.pos
         /\ wloc' = [wloc EXCEPT !.note = n.note, !.scale = n.scale,
                                  !.duration = n.duration]
         /\ events' = Append(events, Event(n))
         /\ wpc' = IF n.note # 0 THEN "nn_tone" ELSE "nn_deadline"
  /\ UNCHANGED <<text, pad, songStart, defaultDur, defaultOct, bpm, wholenote,
                 noteDelay, playing, duty, freq, notified, crashed, now, last,
                 firstRun, cut, runs, cpc>>

\* tone: the timer is set to the note's frequency and the duty to 512
WTone ==
  /\ wpc = "nn_tone"
  /\ freq' = NoteIndex(wloc.scale, wloc.note)
  /\ duty' = 512
  /\ wloc' = [wloc EXCEPT !.wake = now + ToneDelay(wloc.duration)]
  /\ wpc' = "nn_sleep"
  /\ UNCHANGED <<text, pad, buffer, songStart, defaultDur, defaultOct, bpm,
                 wholenote, noteDelay, playing, notified, crashed, now,
                 histVars, cpc>>

\* tone: vTaskDelay returns once the note's duration has passed
WSleep ==
  /\ wpc = "nn_sleep"
  /\ now >= wloc.wake
  /\ wpc' = "nn_deadline"
  /\ UNCHANGED <<memberVars, now, histVars, wloc, cpc>>

\* nextNote: noteDelay = millis() + ...; and continuePlaying returns true
WDeadline ==
  /\ wpc = "nn_deadline"
  /\ noteDelay' = Deadline(now, wloc.note, wloc.duration)
  /\ wpc' = "loop"
  /\ UNCHANGED <<text, pad, buffer, songStart, defaultDur, defaultOct, bpm,
                 wholenote, playing, duty, freq, notified, crashed, now,
                 histVars, wloc, cpc>>

Worker ==
  \/ WWait
  \/ WLoop
  \/ WCheckPlaying
  \/ WCheckTime
  \/ WCheckEnd
  \/ WMute
  \/ WScan
  \/ WTone
  \/ WSleep
  \/ WDeadline

\* play: if (songStart != nullptr) { xTaskNotifyGive(rtttlTaskHandle); ...
CPlayNotify ==
  /\ cpc = "idle"
  /\ IF songStart # 0
     THEN /\ notified' = TRUE
          /\ cpc' = "play_set"
          /\ Called("play", "none", "notified", 0)
     ELSE /\ Called("play", FALSE, "nosong", 0)
          /\ UNCHANGED <<notified, cpc>>
  /\ UNCHANGED <<text, pad, buffer, songStart, defaultDur, defaultOct, bpm,
                 wholenote, noteDelay, playing, duty, freq, crashed, now,
                 events, firstRun, cut, runs, wpc, wloc>>

\* play: playing = true; return true; }
CPlaySet ==
  /\ cpc = "play_set"
  /\ playing' = TRUE
  /\ cpc' = "idle"
  /\ Called("play", TRUE, IF playing THEN "again" ELSE "start", 0)
  /\ events' = IF playing THEN events ELSE <<>>
  /\ UNCHANGED <<text, pad, buffer, songStart, defaultDur, defaultOct, bpm,
                 wholenote, noteDelay, duty, freq, notified, crashed, now,
                 firstRun, cut, runs, wpc, wloc>>

\* stop(), called by the calling task
CStop ==
  /\ cpc = "idle"
  /\ Stop

\* loadSong(SongA), called by the calling task
CLoad ==
  /\ cpc = "idle"
  /\ LoadSong(SongA, NUL)

\* A millisecond passes.
TickTask ==
  /\ now < MaxTimeTask
  /\ TimePasses(1)

NextTask ==
  \/ Worker
  \/ CPlayNotify
  \/ CPlaySet
  \/ CStop
  \/ CLoad
  \/ TickTask

SpecTask == Init /\ [][NextTask]_vars

\* C4: Immediate cancellation.  From the moment a stop() called while
\* playing has returned until the calling task's next call, in every
\* interleaving with the worker, the channel is muted, the scheduler is
\* stopped and the cursor is at songStart: the worker starts no tone and
\* moves no cursor after the stop.
C4_StopIsImmediate ==
  (last.op = "stop" /\ last.branch = "stopped")
    => (duty = 0 /\ ~playing /\ buffer = songStart)

\* C18 as stated: No lost wake-up.  After play() has returned true the
\* worker steps the song to its end; the system never rests in a state
\* where the song is playing while the worker is blocked waiting for a
\* notification: none pending, no call of the calling task under way.
C18_NoLostWakeup ==
  ~(playing /\ wpc = "wait" /\ ~notified /\ cpc = "idle" /\ ~crashed)

=============================================================================
